---- MODULE Spec2Model ----
(***************************************************************************)
(* A model of cine_to_dicom.py: make_gif and its two loaders               *)
(* (_read_multiframe, _read_series) as a sequential state machine, and     *)
(* the intensity normalizer _to_uint8 as an operator applied to bounded    *)
(* frames.                                                                 *)
(*                                                                         *)
(* Conventions.                                                            *)
(*  - An optional value (a tag that may be absent, fps=None) is <<>> when  *)
(*    absent and <<v>> when present.                                       *)
(*  - A duration in seconds is an exact fraction <<num, den>> (den # 0).   *)
(*  - A text value is a sequence of one-character strings.                 *)
(*  - A time tag is represented by the rank of its string in Python's      *)
(*    string order; rank 0 is the empty string.                            *)
(*  - dir is the directory's files in the order the OS enumerates them; a  *)
(*    file is identified by its position in dir.                           *)
(***************************************************************************)
EXTENDS Integers, Sequences, FiniteSets

VARIABLES
    dir,        \* the files of the directory, in enumeration order
    input,      \* 0: input_path is the directory; i > 0: input_path is dir[i]
    fps,        \* make_gif's fps argument (optional)
    pc,         \* position in make_gif
    loaders,    \* the loader variants invoked so far, in order
    files,      \* _read_series: the globbed paths (positions in dir)
    dsets,      \* _read_series: the candidate list
    frames,     \* the loaded frames: [src |-> position in dir, shape |-> dims]
    dt,         \* the loader's duration (optional fraction)
    error,      \* the exception that left make_gif ("" if none)
    encoded,    \* the calls of imageio.mimsave: [srcs, shapes, duration]
    img,        \* _to_uint8: the frame's samples, flattened
    invert,     \* _to_uint8: the invert flag
    scaled,     \* _to_uint8: img * 255.0 + 0.5 truncated, before the uint8 store
    out         \* _to_uint8: the uint8 result (<<>> before the call)

vars == <<dir, input, fps, pc, loaders, files, dsets, frames, dt, error,
          encoded, img, invert, scaled, out>>

pipelineVars == <<dir, input, fps, pc, loaders, files, dsets, frames, dt,
                  error, encoded>>

normVars == <<img, invert, scaled, out>>

----------------------------------------------------------------------------
(* Bounds *)

MaxFiles == 3
MaxTimed == 2
NumFrames == 2
Height == 2
Width == 2
MaxPixels == 3
MaxSample == 2
WideSample == 4095

(* Program constants *)

DefaultFps == 25
MsPerSecond == 1000
PctLow == 1
PctHigh == 99
MaxByte == 255

----------------------------------------------------------------------------
(* Optional values and fractions *)

None == <<>>

Some(v) == <<v>>

Present(t) == Len(t) > 0

\* Python truthiness of an optional number followed by "> 0":
\* "x and x > 0" is false for None, for 0 and for negatives.
Usable(t) == Present(t) /\ t[1] # 0 /\ t[1] > 0

FracEq(a, b) == a[1] * b[2] = b[1] * a[2]

FracPositive(a) == a[1] * a[2] > 0

----------------------------------------------------------------------------
(* Text: str.isdigit and int *)

Digits == <<"0", "1", "2", "3", "4", "5", "6", "7", "8", "9">>

IsDigitChar(c) == \E k \in 1..10 : Digits[k] = c

DigitValue(c) == (CHOOSE k \in 1..10 : Digits[k] = c) - 1

IsDigit(text) == Len(text) > 0 /\ \A k \in 1..Len(text) : IsDigitChar(text[k])

RECURSIVE IntOf(_)
IntOf(text) ==
    IF Len(text) = 0 THEN 0
    ELSE 10 * IntOf(SubSeq(text, 1, Len(text) - 1)) + DigitValue(text[Len(text)])

----------------------------------------------------------------------------
(* _read_series: candidate filter, sort key, stable sort *)

\* glob.glob(folder/"*.dcm") followed by glob.glob(folder/"*"), both in the
\* directory's enumeration order.
GlobFiles(d) ==
    SelectSeq([i \in 1..Len(d) |-> i], LAMBDA i : d[i].dcm)
        \o [i \in 1..Len(d) |-> i]

\* IsCandidate without the SOPClassUID test of line 62
IsCandidateParsed(file) == file.kind # "junk"

\* dcmread(force=True) did not raise and the dataset has a SOPClassUID.
IsCandidate(file) == file.kind = "image"

Candidates(d, fs) == SelectSeq(fs, LAMBDA i : IsCandidate(d[i]))

\* str(getattr(ds, "InstanceNumber", 0))
InstText(file) == IF Present(file.inst) THEN file.inst[1] ELSE <<"0">>

\* int(inst) if str(inst).isdigit() else 0
InstKey(file) == IF IsDigit(InstText(file)) THEN IntOf(InstText(file)) ELSE 0

\* str(getattr(ds, "AcquisitionTime", None) or getattr(ds, "ContentTime", ""))
TimeKey(file) ==
    IF Present(file.acq) /\ file.acq[1] # 0 THEN file.acq[1]
    ELSE IF Present(file.content) THEN file.content[1]
    ELSE 0

sort_key(file) == <<InstKey(file), TimeKey(file)>>

\* Python's order on 2-tuples
TupleLess(a, b) == a[1] < b[1] \/ (a[1] = b[1] /\ a[2] < b[2])

\* list.sort is stable: an item goes before the first item of a greater key.
RECURSIVE InsertByKey(_, _, _)
InsertByKey(d, sorted, x) ==
    IF sorted = <<>> THEN <<x>>
    ELSE IF TupleLess(sort_key(d[x]), sort_key(d[Head(sorted)]))
         THEN <<x>> \o sorted
         ELSE <<Head(sorted)>> \o InsertByKey(d, Tail(sorted), x)

RECURSIVE SortDsets(_, _)
SortDsets(d, ds) ==
    IF ds = <<>> THEN <<>>
    ELSE InsertByKey(d, SortDsets(d, SubSeq(ds, 1, Len(ds) - 1)), ds[Len(ds)])

----------------------------------------------------------------------------
(* Pixel shapes *)

\* ds.pixel_array: [N,H,W] for NumberOfFrames > 1, else [H,W]
PixelShape(file) ==
    IF Present(file.nof) /\ file.nof[1] > 1
    THEN <<file.nof[1], Height, Width>>
    ELSE <<Height, Width>>

\* np.squeeze: drop the axes of length 1
Squeeze(shape) == SelectSeq(shape, LAMBDA n : n # 1)

\* arr[..., :1]: the last axis cut to at most one element
SliceLast(shape) ==
    IF shape = <<>> THEN shape
    ELSE [shape EXCEPT ![Len(shape)] = IF @ > 1 THEN 1 ELSE @]

\* lines 83-86 of _read_series; _to_uint8 keeps the shape
SeriesFrameShape(file) ==
    IF Len(PixelShape(file)) # 2
    THEN SliceLast(Squeeze(PixelShape(file)))
    ELSE PixelShape(file)

SeriesFrames(d, ds) ==
    [k \in 1..Len(ds) |-> [src |-> ds[k], shape |-> SeriesFrameShape(d[ds[k]])]]

\* np.stack raises ValueError for no arrays and for arrays of unequal shapes
Stackable(fr) ==
    /\ fr # <<>>
    /\ \A j, k \in 1..Len(fr) : fr[j].shape = fr[k].shape

\* _read_multiframe: one [H,W] frame per index of the stack
MultiFrames(i, file) ==
    [k \in 1..PixelShape(file)[1] |-> [src |-> i, shape |-> Tail(PixelShape(file))]]

----------------------------------------------------------------------------
(* Timing *)

\* lines 41-48 of _read_multiframe
MultiframeDuration(file) ==
    IF Usable(file.ft) THEN <<file.ft[1], MsPerSecond>>
    ELSE IF Usable(file.cr) THEN <<1, file.cr[1]>>
    ELSE <<1, DefaultFps>>

\* ScanTiming with the two tests of the loop body in the other order
RECURSIVE ScanTimingCineFirst(_, _)
ScanTimingCineFirst(d, ds) ==
    IF ds = <<>> THEN None
    ELSE IF Usable(d[Head(ds)].cr) THEN Some(<<1, d[Head(ds)].cr[1]>>)
    ELSE IF Usable(d[Head(ds)].ft) THEN Some(<<d[Head(ds)].ft[1], MsPerSecond>>)
    ELSE ScanTimingCineFirst(d, Tail(ds))

\* lines 95-104 of _read_series: the loop over dsets with its two breaks
RECURSIVE ScanTiming(_, _)
ScanTiming(d, ds) ==
    IF ds = <<>> THEN None
    ELSE IF Usable(d[Head(ds)].ft) THEN Some(<<d[Head(ds)].ft[1], MsPerSecond>>)
    ELSE IF Usable(d[Head(ds)].cr) THEN Some(<<1, d[Head(ds)].cr[1]>>)
    ELSE ScanTiming(d, Tail(ds))

\* fallback_fps=fps or 25.0
FallbackFps(f) == IF Present(f) /\ f[1] # 0 THEN f[1] ELSE DefaultFps

\* lines 105-106
SeriesDuration(d, ds, f) ==
    IF Present(ScanTiming(d, ds)) THEN ScanTiming(d, ds)[1]
    ELSE <<1, FallbackFps(f)>>

\* OverrideDuration without lines 121-122: fps only reaches fallback_fps
OverrideOnlyAsFallback(f, d) == d

\* lines 121-122 of make_gif
OverrideDuration(f, d) ==
    IF Present(f) /\ f[1] > 0 THEN <<1, f[1]>> ELSE d

----------------------------------------------------------------------------
(* make_gif's choice of loader, lines 111-119 *)

\* SelectLoader with >= 1 for > 1
SelectLoaderAtLeastOne(isdir, nof) ==
    IF isdir THEN "series"
    ELSE IF Present(nof) /\ nof[1] >= 1 THEN "multiframe"
    ELSE "series"

SelectLoader(isdir, nof) ==
    IF isdir THEN "series"
    ELSE IF Present(nof) /\ nof[1] > 1 THEN "multiframe"
    ELSE "series"

----------------------------------------------------------------------------
(* _to_uint8, in exact arithmetic: every intermediate value is kept as a     *)
(* numerator over a positive denominator.                                    *)

RECURSIVE InsertSample(_, _)
InsertSample(sorted, x) ==
    IF sorted = <<>> THEN <<x>>
    ELSE IF x < Head(sorted) THEN <<x>> \o sorted
    ELSE <<Head(sorted)>> \o InsertSample(Tail(sorted), x)

RECURSIVE SortSamples(_)
SortSamples(s) ==
    IF s = <<>> THEN <<>>
    ELSE InsertSample(SortSamples(Tail(s)), Head(s))

\* 100 * np.percentile(img, q): linear interpolation at the virtual index
\* q/100 * (n-1) of the sorted samples.
Percentile100(s, q) ==
    LET sorted == SortSamples(s)
        pos == q * (Len(s) - 1)
        i == pos \div 100
        r == pos % 100
    IN  IF r = 0 THEN 100 * sorted[i + 1]
        ELSE 100 * sorted[i + 1] + r * (sorted[i + 2] - sorted[i + 1])

Lo100(s) == Percentile100(s, PctLow)

\* if hi <= lo: hi = lo + 1.0
Hi100(s) ==
    IF Percentile100(s, PctHigh) <= Lo100(s) THEN Lo100(s) + 100
    ELSE Percentile100(s, PctHigh)

\* Clip without the np.clip call
ClipMissing(num, den) == num

\* np.clip(num/den, 0, 1), as the numerator over den
Clip(num, den) == IF num < 0 THEN 0 ELSE IF num > den THEN den ELSE num

\* if invert: img = 1.0 - img
Inverted(num, den, inv) == IF inv THEN den - num ELSE num

\* truncation toward zero of a/b, b > 0 (the float -> integer conversion)
Trunc(a, b) == IF a >= 0 THEN a \div b ELSE -((-a) \div b)

\* img * 255.0 + 0.5 truncated: (2*255*num + den) / (2*den)
ScaleByte(num, den) == Trunc(2 * MaxByte * num + den, 2 * den)

\* the uint8 store keeps the low 8 bits
AsUint8(n) == n % (MaxByte + 1)

ScaledSample(s, x, inv) ==
    LET den == Hi100(s) - Lo100(s)
    IN  ScaleByte(Inverted(Clip(100 * x - Lo100(s), den), den, inv), den)

ScaledFrame(s, inv) == [k \in 1..Len(s) |-> ScaledSample(s, s[k], inv)]

to_uint8(s, inv) == [k \in 1..Len(s) |-> AsUint8(ScaledFrame(s, inv)[k])]

----------------------------------------------------------------------------
(* Inputs *)

Seqs(S, n) == UNION {[1..k -> S] : k \in 0..n}

BaseFile ==
    [kind |-> "image", dcm |-> FALSE, nof |-> None, inst |-> None,
     acq |-> None, content |-> None, ft |-> None, cr |-> None]

FpsValues == {None, Some(0), Some(-5), Some(10), Some(25)}

FrameTimes == {None, Some(0), Some(40)}

CineRates == {None, Some(0), Some(15)}

InstValues == {None, Some(<<"1">>), Some(<<"2">>), Some(<<"3">>), Some(<<"-", "1">>)}

\* <<AcquisitionTime, ContentTime>>
TimeValues == {<<None, None>>, <<None, Some(1)>>, <<Some(2), Some(1)>>}

FrameCounts == {None, Some(1), Some(NumFrames)}

TimedFiles == {[BaseFile EXCEPT !.ft = a, !.cr = b] : a \in FrameTimes, b \in CineRates}

OrderedFiles ==
    {[BaseFile EXCEPT !.inst = n, !.acq = t[1], !.content = t[2]] :
        n \in InstValues, t \in TimeValues}

KindFiles ==
    {[BaseFile EXCEPT !.kind = k, !.dcm = e] :
        k \in {"image", "nouid", "junk"}, e \in BOOLEAN}

ShapedFiles == {[BaseFile EXCEPT !.nof = n] : n \in FrameCounts}

\* InstanceNumber len, len-1, ..., 1 along the enumeration: the sort reverses it
Descending(d) ==
    [i \in 1..Len(d) |-> [d[i] EXCEPT !.inst = Some(<<Digits[Len(d) - i + 2]>>)]]

\* Series and single files of every timing, under every fps, enumerated in
\* sorted order or in the reverse of it
TimingScenario(d, i, f, rev) ==
    [dir |-> IF rev THEN Descending(d) ELSE d, input |-> i, fps |-> f]

\* A multi-frame file of every timing given as input_path, under every fps
MultiframeScenario(d, i, f) ==
    [dir |-> [d EXCEPT ![i].nof = Some(NumFrames)], input |-> i, fps |-> f]

\* Directories of every combination of sort-key tags; of parseable and
\* unparseable files, with and without .dcm names; of single-frame and
\* multi-frame objects
DirectoryScenario(d, i) == [dir |-> d, input |-> i, fps |-> None]

Samples == (-1..MaxSample) \cup {WideSample}

RawFrames == Seqs(Samples, MaxPixels) \ {<<>>}

----------------------------------------------------------------------------
(* make_gif *)

NormIdle == img = <<>> /\ invert = FALSE /\ scaled = <<>> /\ out = <<>>

Start(s) ==
    /\ dir = s.dir
    /\ input = s.input
    /\ fps = s.fps
    /\ pc = "start"
    /\ loaders = <<>>
    /\ files = <<>>
    /\ dsets = <<>>
    /\ frames = <<>>
    /\ dt = None
    /\ error = ""
    /\ encoded = <<>>
    /\ NormIdle

Init ==
    \/ \E d \in Seqs(TimedFiles, MaxTimed), f \in FpsValues, rev \in BOOLEAN :
          \E i \in 0..Len(d) : Start(TimingScenario(d, i, f, rev))
    \/ \E d \in Seqs(TimedFiles, MaxTimed), f \in FpsValues :
          \E i \in 1..Len(d) : Start(MultiframeScenario(d, i, f))
    \/ \E d \in Seqs(OrderedFiles, MaxFiles) : Start(DirectoryScenario(d, 0))
    \/ \E d \in Seqs(KindFiles, MaxFiles) :
          \E i \in 0..Len(d) : Start(DirectoryScenario(d, i))
    \/ \E d \in Seqs(ShapedFiles, MaxFiles) :
          \E i \in 0..Len(d) : Start(DirectoryScenario(d, i))

Raise(e) ==
    /\ pc' = "raised"
    /\ error' = e

\* lines 111-119: os.path.isdir, dcmread(input_path), NumberOfFrames
Dispatch ==
    /\ pc = "start"
    /\ IF input # 0 /\ dir[input].kind = "junk"
       THEN /\ Raise("InvalidDicomError")
            /\ UNCHANGED loaders
       ELSE /\ loaders' = Append(loaders,
                    SelectLoader(input = 0, IF input = 0 THEN None ELSE dir[input].nof))
            /\ pc' = IF loaders'[Len(loaders')] = "multiframe" THEN "multiframe" ELSE "glob"
            /\ UNCHANGED error
    /\ UNCHANGED <<dir, input, fps, files, dsets, frames, dt, encoded>>
    /\ UNCHANGED normVars

\* _read_multiframe, lines 27-49
ReadMultiframe ==
    /\ pc = "multiframe"
    /\ frames' = MultiFrames(input, dir[input])
    /\ dt' = Some(MultiframeDuration(dir[input]))
    /\ pc' = "override"
    /\ UNCHANGED <<dir, input, fps, loaders, files, dsets, error, encoded>>
    /\ UNCHANGED normVars

\* _read_series, lines 53-55
Glob ==
    /\ pc = "glob"
    /\ files' = GlobFiles(dir)
    /\ pc' = "filter"
    /\ UNCHANGED <<dir, input, fps, loaders, dsets, frames, dt, error, encoded>>
    /\ UNCHANGED normVars

\* _read_series, lines 57-67
Filter ==
    /\ pc = "filter"
    /\ dsets' = Candidates(dir, files)
    /\ IF dsets' = <<>>
       THEN Raise("FileNotFoundError: No DICOM files found in folder.")
       ELSE pc' = "sort" /\ UNCHANGED error
    /\ UNCHANGED <<dir, input, fps, loaders, files, frames, dt, encoded>>
    /\ UNCHANGED normVars

\* _read_series, lines 69-75
Sort ==
    /\ pc = "sort"
    /\ dsets' = SortDsets(dir, dsets)
    /\ pc' = "load"
    /\ UNCHANGED <<dir, input, fps, loaders, files, frames, dt, error, encoded>>
    /\ UNCHANGED normVars

\* _read_series, lines 77-92
Load ==
    /\ pc = "load"
    /\ IF Stackable(SeriesFrames(dir, dsets))
       THEN /\ frames' = SeriesFrames(dir, dsets)
            /\ pc' = "timing"
            /\ UNCHANGED error
       ELSE /\ Raise("ValueError: all input arrays must have the same shape")
            /\ UNCHANGED frames
    /\ UNCHANGED <<dir, input, fps, loaders, files, dsets, dt, encoded>>
    /\ UNCHANGED normVars

\* _read_series, lines 94-107, called with fallback_fps=fps or 25.0
Timing ==
    /\ pc = "timing"
    /\ dt' = Some(SeriesDuration(dir, dsets, fps))
    /\ pc' = "override"
    /\ UNCHANGED <<dir, input, fps, loaders, files, dsets, frames, error, encoded>>
    /\ UNCHANGED normVars

\* make_gif, lines 121-122
Override ==
    /\ pc = "override"
    /\ dt' = Some(OverrideDuration(fps, dt[1]))
    /\ pc' = "encode"
    /\ UNCHANGED <<dir, input, fps, loaders, files, dsets, frames, error, encoded>>
    /\ UNCHANGED normVars

\* make_gif, lines 124-131: imageio.mimsave
Encode ==
    /\ pc = "encode"
    /\ encoded' = Append(encoded, [frames |-> frames, duration |-> dt[1]])
    /\ pc' = "done"
    /\ UNCHANGED <<dir, input, fps, loaders, files, dsets, frames, dt, error>>
    /\ UNCHANGED normVars

Next ==
    \/ Dispatch
    \/ ReadMultiframe
    \/ Glob
    \/ Filter
    \/ Sort
    \/ Load
    \/ Timing
    \/ Override
    \/ Encode

Spec == Init /\ [][Next]_vars

----------------------------------------------------------------------------
(* _to_uint8 on its own: every bounded frame, both values of invert *)

InitNorm ==
    /\ dir = <<>>
    /\ input = 0
    /\ fps = None
    /\ pc = "idle"
    /\ loaders = <<>>
    /\ files = <<>>
    /\ dsets = <<>>
    /\ frames = <<>>
    /\ dt = None
    /\ error = ""
    /\ encoded = <<>>
    /\ img \in RawFrames
    /\ invert \in BOOLEAN
    /\ scaled = <<>>
    /\ out = <<>>

Normalize ==
    /\ img # <<>>
    /\ out = <<>>
    /\ scaled' = ScaledFrame(img, invert)
    /\ out' = to_uint8(img, invert)
    /\ UNCHANGED <<img, invert>>
    /\ UNCHANGED pipelineVars

NextNorm == Normalize

SpecNorm == InitNorm /\ [][NextNorm]_vars

----------------------------------------------------------------------------
(* Properties *)

OverrideGiven == Present(fps) /\ fps[1] > 0

SeriesRan == loaders = <<"series">>

MultiframeRan == loaders = <<"multiframe">>

\* C1: whenever fps is given and > 0, the duration handed to the encoder is
\* 1/fps, in both loader variants and whatever FrameTime and CineRate hold.
C1_OverrideWins ==
    \A k \in 1..Len(encoded) :
        OverrideGiven => FracEq(encoded[k].duration, <<1, fps[1]>>)

\* C1 witness: the encoder was called for a series whose first object declares
\* CineRate=15, under fps=25.
C1_Witness ==
    /\ pc = "done"
    /\ encoded # <<>>
    /\ fps = Some(25)
    /\ SeriesRan
    /\ dir[dsets[1]].cr = Some(15)

\* The objects whose timing tags the loader may consult, in its order
SourceObjects == IF MultiframeRan THEN <<input>> ELSE dsets

HasFrameTime(file) == Usable(file.ft)

HasCineRate(file) == Usable(file.cr)

HasTiming(file) == HasFrameTime(file) \/ HasCineRate(file)

FirstWith(objs, P(_)) ==
    CHOOSE k \in 1..Len(objs) :
        P(dir[objs[k]]) /\ \A j \in 1..(k - 1) : ~P(dir[objs[j]])

AnyWith(objs, P(_)) == \E k \in 1..Len(objs) : P(dir[objs[k]])

\* The chain over the source as a whole: a usable FrameTime anywhere in the
\* source, else a usable CineRate anywhere, else the default.
ChainOverSource ==
    IF AnyWith(SourceObjects, HasFrameTime)
    THEN <<dir[SourceObjects[FirstWith(SourceObjects, HasFrameTime)]].ft[1], MsPerSecond>>
    ELSE IF AnyWith(SourceObjects, HasCineRate)
    THEN <<1, dir[SourceObjects[FirstWith(SourceObjects, HasCineRate)]].cr[1]>>
    ELSE <<1, DefaultFps>>

\* The chain on one object: the first object, in the loader's order, that
\* carries a usable tag of either kind.
ChainOnFirstTimedObject ==
    IF AnyWith(SourceObjects, HasTiming)
    THEN LET f == dir[SourceObjects[FirstWith(SourceObjects, HasTiming)]]
         IN  IF HasFrameTime(f) THEN <<f.ft[1], MsPerSecond>> ELSE <<1, f.cr[1]>>
    ELSE <<1, DefaultFps>>

C3_PositiveDuration ==
    \A k \in 1..Len(encoded) : FracPositive(encoded[k].duration)

NoValidCandidate == \A i \in 1..Len(dir) : dir[i].kind # "image"

\* C4: when the series loader finds no valid candidate (every file fails to
\* parse or lacks a SOPClassUID), make_gif ends with the "No DICOM files found"
\* error and the encoder is never called.
C4_NoSourceObjects ==
    (SeriesRan /\ NoValidCandidate) =>
        /\ encoded = <<>>
        /\ pc \in {"glob", "filter", "raised"}
        /\ pc = "raised" =>
              error = "FileNotFoundError: No DICOM files found in folder."

\* C4 witness: the error was raised for a directory holding both an
\* unparseable file and a parsed one without SOPClassUID.
C4_Witness ==
    /\ pc = "raised"
    /\ SeriesRan
    /\ error = "FileNotFoundError: No DICOM files found in folder."
    /\ \E i, j \in 1..Len(dir) : dir[i].kind = "junk" /\ dir[j].kind = "nouid"

\* The value of a decimal integer text with an optional sign; 0 for any other
\* text.
NumericValue(text) ==
    IF IsDigit(text) THEN IntOf(text)
    ELSE IF Len(text) > 1 /\ text[1] = "-" /\ IsDigit(Tail(text)) THEN -IntOf(Tail(text))
    ELSE 0

\* The composite key of the claim: the instance number's numeric value
\* (0 when it is absent or not a number), then the time component.
NumericKey(file) == <<NumericValue(InstText(file)), TimeKey(file)>>

\* C5: the frames of a series are in ascending order of the composite key
\* (numeric instance number, then acquisition or content time).
C5_AscendingByNumericKey ==
    SeriesRan =>
        \A k \in 1..(Len(frames) - 1) :
            ~TupleLess(NumericKey(dir[frames[k + 1].src]), NumericKey(dir[frames[k].src]))

\* C8: a series holding a candidate whose pixel data is not 2-dimensional
\* still loads, and every frame it yields is 2-dimensional.
C8_DegradesTo2D ==
    (/\ SeriesRan
     /\ pc \in {"timing", "override", "encode", "done", "raised"}
     /\ \E i \in 1..Len(dir) : IsCandidate(dir[i]) /\ Len(PixelShape(dir[i])) # 2)
    => /\ pc # "raised"
       /\ \A k \in 1..Len(frames) : Len(frames[k].shape) = 2

Perms(n) == {p \in [1..n -> 1..n] : \A i, j \in 1..n : p[i] = p[j] => i = j}

\* The directory enumerated in another order: position i holds file p[i]
Enumerated(d, p) == [i \in 1..Len(d) |-> d[p[i]]]

\* The files behind the output frames when the directory is enumerated as p
OrderUnder(p) ==
    LET d == Enumerated(dir, p)
        order == SortDsets(d, Candidates(d, GlobFiles(d)))
    IN  [k \in 1..Len(order) |-> p[order[k]]]

\* C9: the output order of a series does not depend on the order in which
\* the directory's files are enumerated.
C9_EnumerationIndependent ==
    (SeriesRan /\ pc = "done") =>
        \A p \in Perms(Len(dir)) :
            OrderUnder(p) = [k \in 1..Len(frames) |-> frames[k].src]

\* C10: every valid candidate file of a series contributes exactly one frame:
\* as many frames as valid files, and no file behind two frames.
C10_OneFramePerFile ==
    (SeriesRan /\ pc \in {"timing", "override", "encode", "done"}) =>
        /\ Len(frames) = Cardinality({i \in 1..Len(dir) : IsCandidate(dir[i])})
        /\ \A j, k \in 1..Len(frames) : frames[j].src = frames[k].src => j = k

NumberOfFramesAboveOne == input # 0 /\ Present(dir[input].nof) /\ dir[input].nof[1] > 1

C6_ByteRange ==
    out # <<>> =>
        /\ Len(out) = Len(img)
        /\ \A k \in 1..Len(out) :
              /\ scaled[k] \in 0..MaxByte
              /\ out[k] \in 0..MaxByte
              /\ out[k] = scaled[k]

\* C6 witness: an inverted frame of several samples whose 1st and 99th
\* percentiles coincide was normalized.
C6_Witness ==
    /\ out # <<>>
    /\ invert
    /\ Len(img) > 1
    /\ Percentile100(img, PctHigh) <= Percentile100(img, PctLow)

====
